---------------------------- MODULE Spec2Model ----------------------------
(***************************************************************************)
(* AutoAudit evidence scanner: the batch run of backend/scanner.py (main)  *)
(* and the HTTP service of aa_ui/ui.py (scan, the in-memory run log, the   *)
(* byte extractors).                                                       *)
(*                                                                         *)
(* Text that the code inspects character by character (file names, the     *)
(* extracted text, the menu input, uploaded bytes) is a sequence of        *)
(* character codes; labels the code only copies and joins (strategy names, *)
(* statuses, evidence snippets) are strings.                               *)
(***************************************************************************)
EXTENDS Naturals, Sequences, FiniteSets, TLC

VARIABLES
    \* ---- scanner.py: main() ----
    pc,                 \* position of the program the behaviour follows
    fs,                 \* the evidence tree under AUTOAUDIT_INPUT_DIR
    strategies,         \* load_strategies()
    user_id,            \* get_username()
    chosen_menu,        \* indices returned by choose_from_menu, in entry order
    chosen_strategies,  \* main: the strategies of the run
    si,                 \* index of the outer loop (for strat in chosen_strategies)
    files,              \* main: the listing of the current strategy
    fi,                 \* index of the inner loop (for fpath in files)
    report_rows,        \* main: header and data rows
    calls,              \* history: one record per (strategy, file) pair scanned
    csv_file,           \* contents written to CSV_PATH (NotWritten: none)
    csv_error,          \* the exception open(CSV_PATH) raised (None: none)
    temp_file,          \* contents written to scan_report_temp.csv
    temp_error,         \* the exception open("scan_report_temp.csv") raised
    posts,              \* history: the _memlog calls of the run
    mi,                 \* index of the loop over _memlog calls
    \* ---- ui.py ----
    SCAN_MEM,           \* the deque, left end first
    clock,              \* number of _push_mem_log calls so far (the entry's ts)
    snapshot,           \* body of the last GET /api/scan-mem-log
    fitz,               \* TRUE iff PyMuPDF was importable
    DocxDocument,       \* TRUE iff python-docx was importable
    previews_dir,       \* names of the files written under PREVIEWS
    reports_out,        \* report names generated under OUT_DIR
    resp,               \* the last response of POST /scan
    trace,              \* history: what the last POST /scan did, in order
    nreq                \* number of POST /scan requests served

vars == <<pc, fs, strategies, user_id, chosen_menu, chosen_strategies, si, files,
          fi, report_rows, calls, csv_file, csv_error, temp_file, temp_error,
          posts, mi,
          SCAN_MEM, clock, snapshot, fitz, DocxDocument, previews_dir,
          reports_out, resp, trace, nreq>>

scannerVars == <<fs, strategies, user_id, chosen_menu, chosen_strategies, si,
                 files, fi, report_rows, calls, csv_file, csv_error, temp_file,
                 temp_error, posts, mi>>

scanVars == <<fitz, DocxDocument, previews_dir, reports_out, resp, trace, nreq>>

logVars == <<SCAN_MEM, clock, snapshot>>

None == "None"

\* a path that was not given, a file that was not written
NoPath == <<>>
NotWritten == <<>>

(***************************************************************************)
(* Bounds of the model.                                                    *)
(***************************************************************************)
\* number of comma-separated tokens the user types at the menu
MaxTokens == 2
\* number of findings (or raw hits) a rule engine returns for one text
MaxEmit == 2
\* number of POST /scan requests served
MaxRequests == 1
\* number of run-log appends followed past the log's capacity
MaxOverflow == 2
\* number of POST /api/scan-mem-log requests with arbitrary payloads
MaxPosts == 2

(***************************************************************************)
(* Character-level helpers (Python str methods).                           *)
(***************************************************************************)
\* str.lower() on one ASCII character
LowerChar(c) == IF c >= 65 /\ c <= 90 THEN c + 32 ELSE c

\* str.lower()
Lower(s) == [i \in 1..Len(s) |-> LowerChar(s[i])]

\* the ASCII characters str.strip() removes: \t \n \v \f \r, the four
\* separators 0x1c..0x1f and the space
Whitespace == {9, 10, 11, 12, 13, 28, 29, 30, 31, 32}

\* str.strip()
Strip(s) ==
    LET keep == {i \in 1..Len(s) : s[i] \notin Whitespace}
    IN  IF keep = {} THEN <<>>
        ELSE LET lo == CHOOSE i \in keep : \A j \in keep : i <= j
                 hi == CHOOSE i \in keep : \A j \in keep : j <= i
             IN  SubSeq(s, lo, hi)

\* lexicographic s < t on sequences of character codes (Python str comparison)
StrLess(s, t) ==
    \E k \in 1..(Len(t)) :
        /\ \A j \in 1..(k - 1) : j <= Len(s) /\ s[j] = t[j]
        /\ \/ k = Len(s) + 1
           \/ k <= Len(s) /\ s[k] < t[k]

StrLeq(s, t) == s = t \/ StrLess(s, t)

\* pathlib: Path(name).suffix, the part from the last dot (none if the dot
\* leads the name or ends it)
Suffix(name) ==
    LET dots == {i \in 2..Len(name) : name[i] = 46}
    IN  IF dots = {} THEN <<>>
        ELSE LET d == CHOOSE i \in dots : \A j \in dots : j <= i
             IN  IF d = Len(name) THEN <<>> ELSE SubSeq(name, d, Len(name))

\* pathlib: Path(name).stem
Stem(name) == SubSeq(name, 1, Len(name) - Len(Suffix(name)))

\* sep.join(parts) on strings
RECURSIVE Join(_, _)
Join(sep, parts) ==
    IF parts = <<>> THEN ""
    ELSE IF Len(parts) = 1 THEN parts[1]
    ELSE parts[1] \o sep \o Join(sep, Tail(parts))

\* sep.join(parts) on sequences of character codes
RECURSIVE JoinCodes(_, _)
JoinCodes(sep, parts) ==
    IF parts = <<>> THEN <<>>
    ELSE IF Len(parts) = 1 THEN parts[1]
    ELSE parts[1] \o sep \o JoinCodes(sep, Tail(parts))

RECURSIVE Flatten(_)
Flatten(ss) == IF ss = <<>> THEN <<>> ELSE Head(ss) \o Flatten(Tail(ss))

Range(s) == {s[i] : i \in 1..Len(s)}

(***************************************************************************)
(* scanner.py                                                              *)
(***************************************************************************)
\* the strategies package is not part of the sources: two registered
\* strategies, one with the rich contract and one with match() only
Registry ==
    << [name |-> "Application Control", key |-> "application control",
        has_emit_hits |-> TRUE],
       [name |-> "Custom Heuristic", key |-> "custom heuristic",
        has_emit_hits |-> FALSE] >>

\* STRAT_DIR_MAP.get(strat_key, None), on the keys the registry uses
STRAT_DIR_MAP(key) ==
    CASE key = "application control" -> "application_control"
      [] key = "restrict admin privileges" -> "restrict_admin_privileges"
      [] key = "patch applications" -> "patch_applications"
      [] key = "patch operating systems" -> "patch_operating_systems"
      [] key = "configure microsoft office macro settings" -> "configure_macro_settings"
      [] key = "multi-factor authentication" -> "multi_factor_authentication"
      [] key = "regular backups" -> "regular_backups"
      [] key = "user application hardening" -> "user_application_hardening"
      [] OTHER -> None

\* backend.core_ocr.SUPPORTED_ALL_EXTS: image, PDF, word-processing and
\* plain-text families
SUPPORTED_ALL_EXTS ==
    { <<46, 112, 110, 103>>,        \* .png
      <<46, 106, 112, 103>>,        \* .jpg
      <<46, 112, 100, 102>>,        \* .pdf
      <<46, 100, 111, 99, 120>>,    \* .docx
      <<46, 116, 120, 116>>,        \* .txt
      <<46, 108, 111, 103>> }       \* .log

\* Evidence trees. dir "" is base_dir itself; text is what
\* extract_text_and_preview returns for the file.
FileBTxt == [dir |-> "", name |-> <<66, 46, 116, 120, 116>>,          \* B.txt
             text |-> <<32, 32, 10>>]
FileExe  == [dir |-> "", name |-> <<110, 111, 116, 101, 115, 46, 101, 120, 101>>,
             text |-> <<120>>]                                        \* notes.exe
FileCLog == [dir |-> "", name |-> <<99, 46, 108, 111, 103>>,          \* c.log
             text |-> <<112, 119>>]
FileATxt == [dir |-> "application_control",
             name |-> <<97, 46, 116, 120, 116>>,                      \* a.txt
             text |-> <<32, 112, 119, 10>>]
FileATXT == [dir |-> "application_control",
             name |-> <<65, 46, 84, 88, 84>>,                         \* A.TXT
             text |-> <<>>]

Trees ==
    { {FileBTxt, FileExe, FileATxt, FileATXT},   \* the strategy's folder is filled
      {FileBTxt, FileExe, FileCLog},             \* only base_dir holds evidence
      {FileExe} }                                \* nothing supported anywhere

Users == {"alice"}

\* the tokens typed at the menu, between commas
Tokens ==
    { <<49>>,       \* "1"
      <<32, 50>>,   \* " 2"
      <<48>>,       \* "0"
      <<51>>,       \* "3"
      <<120>>,      \* "x"
      <<>> }        \* ""

\* str.isdigit() on ASCII input
IsDigit(tok) == tok # <<>> /\ \A i \in 1..Len(tok) : tok[i] >= 48 /\ tok[i] <= 57

\* int(tok) for a string of ASCII digits
RECURSIVE ToInt(_)
ToInt(tok) ==
    IF tok = <<>> THEN 0
    ELSE 10 * ToInt(SubSeq(tok, 1, Len(tok) - 1)) + (tok[Len(tok)] - 48)

\* choose_from_menu: the selected indices (1-based here), in the order typed
RECURSIVE choose_from_menu(_, _)
choose_from_menu(raw, nOptions) ==
    IF raw = <<>> THEN <<>>
    ELSE LET tok == Strip(Head(raw))
             rest == choose_from_menu(Tail(raw), nOptions)
         IN  IF IsDigit(tok) /\ 1 <= ToInt(tok) /\ ToInt(tok) <= nOptions
             THEN <<ToInt(tok)>> \o rest
             ELSE rest

\* the selection kept as typed, without the set and the filter
SelectAsTyped(strats, menu) == [i \in 1..Len(menu) |-> strats[menu[i]]]

\* main, lines 108-112: the menu entries "name - description" are split back
\* into names, collected into a set, and the registry is filtered by it
SelectStrategies(strats, menu) ==
    LET chosen_names == {strats[menu[i]].name : i \in 1..Len(menu)}
    IN  SelectSeq(strats, LAMBDA s : s.name \in chosen_names)

\* list_supported_files: the sort key
SortKey(p) == Lower(p.name)

\* list_supported_files: every listing sorted() can return. rglob's order is
\* the file system's, and sorted() is stable, so files with equal keys come
\* in any order.
list_supported_files(tree, folder) ==
    LET out == {p \in tree : /\ (folder = "" \/ p.dir = folder)
                             /\ Lower(Suffix(p.name)) \in SUPPORTED_ALL_EXTS}
        n == Cardinality(out)
    IN  {l \in [1..n -> out] :
            /\ \A i, j \in 1..n : i # j => l[i] # l[j]
            /\ \A i \in 1..(n - 1) : StrLeq(SortKey(l[i]), SortKey(l[i + 1]))}

\* extract_text
extract_text(p) == p.text

\* the test of line 153 written as raw_text == ""
IsBlankEmptyOnly(text) == text = <<>>

\* main, line 153: not raw_text.strip()
IsBlank(text) == Strip(text) = <<>>

Header ==
    << "UserID", "Image", "Strategy", "TestID", "Sub-Strategy",
       "ML Level", "Pass/Fail", "Priority", "Recommendation", "Evidence Extract" >>

\* a finding the rich contract returns; i tells findings apart
Finding(i) ==
    [test_id |-> IF i = 1 THEN "T1" ELSE IF i = 2 THEN "T2" ELSE "T3",
     sub_strategy |-> "AC",
     detected_level |-> "ML1",
     pass_fail |-> IF i = 1 THEN "FAIL" ELSE "PASS",
     priority |-> "High",
     recommendation |-> "Fix it.",
     evidence |-> IF i = 1 THEN <<"e1", "e2">> ELSE <<"e3">>]

\* what emit_hits may return: up to MaxEmit findings, in either order
EmitOutputs ==
    UNION { { [i \in 1..k |-> Finding(i)], [i \in 1..k |-> Finding(k + 1 - i)] }
            : k \in 0..MaxEmit }

\* what match may return: up to MaxEmit raw hits
Hit(i) == IF i = 1 THEN "h1" ELSE IF i = 2 THEN "h2" ELSE "h3"

MatchOutputs == { [i \in 1..k |-> Hit(i)] : k \in 0..MaxEmit }

\* main, lines 156-161
NoTextRow(user, p, strat) ==
    << user, p.name, strat.name, "", "", "", "NO_TEXT", "Low",
       "OCR could not read this file. Try a clearer screenshot.", "" >>

\* main, lines 172-183
FindingRow(user, p, strat, r) ==
    << user, p.name, strat.name, r.test_id, r.sub_strategy, r.detected_level,
       r.pass_fail, r.priority, r.recommendation, Join("; ", r.evidence) >>

\* main, lines 188-193
HitRow(user, p, strat, hits) ==
    << user, p.name, strat.name, "", "", "", "HIT", "Medium",
       "Heuristic match.", Join(", ", hits) >>

\* main, lines 198-203
NoMatchRow(user, p, strat) ==
    << user, p.name, strat.name, "", "", "", "NO_MATCH", "Low",
       "No rule matched this file.", "" >>

(***************************************************************************)
(* ui.py: the run log                                                      *)
(***************************************************************************)
\* SCAN_MEM = deque(maxlen=50)
SCAN_MEM_MAXLEN == 50

\* deque.append in place of appendleft: a full deque drops its left end
AppendRight(d, e, maxlen) ==
    LET l == d \o <<e>>
    IN  IF Len(l) > maxlen THEN Tail(l) ELSE l

\* deque.appendleft on a deque with maxlen: a full deque drops its right end
AppendLeft(d, e, maxlen) ==
    LET l == <<e>> \o d
    IN  IF Len(l) > maxlen THEN SubSeq(l, 1, maxlen) ELSE l

\* _push_mem_log: the deque after the call. ts is the number of the call
\* (the code stores the wall-clock time of the call).
_push_mem_log(mem, now, user, strategy, status) ==
    AppendLeft(mem,
               [ts |-> now, user |-> user, strategy |-> strategy, status |-> status],
               SCAN_MEM_MAXLEN)

\* dict.get(key): None when the key is absent
Get(payload, key) == IF key \in DOMAIN payload THEN payload[key] ELSE None

\* a or b, on strings and None
Or(a, b) == IF a = None \/ a = "" THEN b ELSE a

\* api_post_scan_mem_log: POST /api/scan-mem-log
api_post_scan_mem_log(payload) ==
    /\ SCAN_MEM' = _push_mem_log(SCAN_MEM, clock + 1,
                       Or(Or(Get(payload, "user"), Get(payload, "user_id")), "user"),
                       Or(Or(Get(payload, "strategy"), Get(payload, "strategy_name")), ""),
                       Or(Get(payload, "status"), "success"))
    /\ clock' = clock + 1

\* api_get_scan_mem_log: GET /api/scan-mem-log returns list(SCAN_MEM)
api_get_scan_mem_log ==
    /\ snapshot' = SCAN_MEM
    /\ UNCHANGED <<SCAN_MEM, clock>>

(***************************************************************************)
(* scanner.py: main()                                                      *)
(***************************************************************************)
\* what the user may type at the menu: 1..MaxTokens tokens
RawInputs == UNION { [1..n -> Tokens] : n \in 1..MaxTokens }

\* main, lines 102-105: no strategy is registered
main_no_strategies ==
    /\ pc = "main"
    /\ strategies = <<>>
    /\ pc' = "exit"
    /\ \E u \in Users : user_id' = u
    /\ UNCHANGED <<fs, strategies, chosen_menu, chosen_strategies, si, files, fi,
                   report_rows, calls, csv_file, csv_error, temp_file, temp_error, posts, mi>>
    /\ UNCHANGED <<logVars, scanVars>>

\* main, lines 108-116: nothing valid was selected
main_invalid_selection ==
    /\ pc = "main"
    /\ strategies # <<>>
    /\ \E u \in Users, raw \in RawInputs :
         LET menu == choose_from_menu(raw, Len(strategies))
         IN  /\ SelectStrategies(strategies, menu) = <<>>
             /\ user_id' = u
             /\ chosen_menu' = menu
    /\ pc' = "exit"
    /\ UNCHANGED <<fs, strategies, chosen_strategies, si, files, fi,
                   report_rows, calls, csv_file, csv_error, temp_file, temp_error, posts, mi>>
    /\ UNCHANGED <<logVars, scanVars>>

\* main, lines 99-127: the run starts with the header row
main_selected ==
    /\ pc = "main"
    /\ strategies # <<>>
    /\ \E u \in Users, raw \in RawInputs :
         LET menu == choose_from_menu(raw, Len(strategies))
         IN  /\ SelectStrategies(strategies, menu) # <<>>
             /\ user_id' = u
             /\ chosen_menu' = menu
             /\ chosen_strategies' = SelectStrategies(strategies, menu)
    /\ report_rows' = <<Header>>
    /\ si' = 1
    /\ pc' = "strategy"
    /\ UNCHANGED <<fs, strategies, files, fi, calls, csv_file, csv_error,
                   temp_file, temp_error, posts, mi>>
    /\ UNCHANGED <<logVars, scanVars>>

\* main, lines 131-133: the strategy's folder ("" is base_dir)
Preferred(strat) ==
    LET strat_sub == STRAT_DIR_MAP(strat.key)
    IN  IF strat_sub # None THEN strat_sub ELSE ""

\* main, lines 136-140: the listings the strategy may end up with
Listings(tree, strat) ==
    IF list_supported_files(tree, Preferred(strat)) # {<<>>}
    THEN list_supported_files(tree, Preferred(strat))
    ELSE list_supported_files(tree, "")

\* main, lines 130-147: the strategy has files to scan
strategy_files ==
    /\ pc = "strategy"
    /\ si <= Len(chosen_strategies)
    /\ \E l \in Listings(fs, chosen_strategies[si]) :
         /\ l # <<>>
         /\ files' = l
    /\ fi' = 1
    /\ pc' = "file"
    /\ UNCHANGED <<fs, strategies, user_id, chosen_menu, chosen_strategies, si,
                   report_rows, calls, csv_file, csv_error, temp_file, temp_error, posts, mi>>
    /\ UNCHANGED <<logVars, scanVars>>

\* main, lines 142-144: no file in the folder nor in base_dir: skip
strategy_skip ==
    /\ pc = "strategy"
    /\ si <= Len(chosen_strategies)
    /\ Listings(fs, chosen_strategies[si]) = {<<>>}
    /\ si' = si + 1
    /\ UNCHANGED <<pc, fs, strategies, user_id, chosen_menu, chosen_strategies,
                   files, fi, report_rows, calls, csv_file, csv_error, temp_file, temp_error,
                   posts, mi>>
    /\ UNCHANGED <<logVars, scanVars>>

\* the inner loop moves to the next file, or the outer loop to the next strategy
NextFile ==
    IF fi < Len(files)
    THEN /\ fi' = fi + 1
         /\ UNCHANGED <<pc, si>>
    ELSE /\ si' = si + 1
         /\ pc' = "strategy"
         /\ UNCHANGED fi

\* the rows of lines 167-203 without the rows_added counter
EmitRowsNoCounter(user, p, strat, rows) ==
    [i \in 1..Len(rows) |-> FindingRow(user, p, strat, rows[i])]
    \o <<NoMatchRow(user, p, strat)>>

\* main, lines 167-203: the rows of a file whose text is not blank
EmitRows(user, p, strat, rows) ==
    [i \in 1..Len(rows) |-> FindingRow(user, p, strat, rows[i])]
    \o (IF Len(rows) = 0 THEN <<NoMatchRow(user, p, strat)>> ELSE <<>>)

\* the legacy branch writing one row per raw hit
MatchRowsPerHit(user, p, strat, hits) ==
    IF hits # <<>> THEN [i \in 1..Len(hits) |-> HitRow(user, p, strat, <<hits[i]>>)]
    ELSE <<NoMatchRow(user, p, strat)>>

\* main, lines 185-203: the rows of the legacy contract
MatchRows(user, p, strat, hits) ==
    IF hits # <<>> THEN <<HitRow(user, p, strat, hits)>>
    ELSE <<NoMatchRow(user, p, strat)>>

\* main, lines 149-162: the file has no readable text
scan_file_no_text ==
    /\ pc = "file"
    /\ IsBlank(extract_text(files[fi]))
    /\ report_rows' = Append(report_rows,
                             NoTextRow(user_id, files[fi], chosen_strategies[si]))
    /\ calls' = Append(calls, [strat |-> chosen_strategies[si], file |-> files[fi],
                               engine |-> None, out |-> <<>>])
    /\ NextFile
    /\ UNCHANGED <<fs, strategies, user_id, chosen_menu, chosen_strategies, files,
                   csv_file, csv_error, temp_file, temp_error, posts, mi>>
    /\ UNCHANGED <<logVars, scanVars>>

\* main, lines 169-184 and 197-203: the rich contract
scan_file_emit_hits ==
    /\ pc = "file"
    /\ ~IsBlank(extract_text(files[fi]))
    /\ chosen_strategies[si].has_emit_hits
    /\ \E rows \in EmitOutputs :
         /\ report_rows' = report_rows \o
                EmitRows(user_id, files[fi], chosen_strategies[si], rows)
         /\ calls' = Append(calls, [strat |-> chosen_strategies[si],
                                    file |-> files[fi],
                                    engine |-> "emit_hits", out |-> rows])
    /\ NextFile
    /\ UNCHANGED <<fs, strategies, user_id, chosen_menu, chosen_strategies, files,
                   csv_file, csv_error, temp_file, temp_error, posts, mi>>
    /\ UNCHANGED <<logVars, scanVars>>

\* main, lines 185-203: the legacy contract
scan_file_match ==
    /\ pc = "file"
    /\ ~IsBlank(extract_text(files[fi]))
    /\ ~chosen_strategies[si].has_emit_hits
    /\ \E hits \in MatchOutputs :
         /\ report_rows' = report_rows \o
                MatchRows(user_id, files[fi], chosen_strategies[si], hits)
         /\ calls' = Append(calls, [strat |-> chosen_strategies[si],
                                    file |-> files[fi],
                                    engine |-> "match", out |-> hits])
    /\ NextFile
    /\ UNCHANGED <<fs, strategies, user_id, chosen_menu, chosen_strategies, files,
                   csv_file, csv_error, temp_file, temp_error, posts, mi>>
    /\ UNCHANGED <<logVars, scanVars>>

\* csv.writer(f).writerows(report_rows): the contents of the file
writerows(rows) == rows

\* what open() may raise
OpenErrors == {"PermissionError", "OSError"}

\* the write without the except clause of line 218
HandledNever(e) == FALSE

\* main, lines 206-218: an exception of the first write is handled by the
\* fallback iff it is a PermissionError
Handled(e) == e = "PermissionError"

\* main, lines 206-210: the report is written to CSV_PATH
save_csv ==
    /\ pc = "strategy"
    /\ si > Len(chosen_strategies)
    /\ csv_file' = writerows(report_rows)
    /\ mi' = 1
    /\ pc' = "memlog"
    /\ UNCHANGED <<fs, strategies, user_id, chosen_menu, chosen_strategies, si,
                   files, fi, report_rows, calls, csv_error, temp_file, temp_error,
                   posts>>
    /\ UNCHANGED <<logVars, scanVars>>

\* main, lines 218-223: CSV_PATH is locked, the report goes to
\* scan_report_temp.csv
save_temp ==
    /\ pc = "strategy"
    /\ si > Len(chosen_strategies)
    /\ \E e \in OpenErrors :
         /\ Handled(e)
         /\ csv_error' = e
    /\ temp_file' = writerows(report_rows)
    /\ mi' = 1
    /\ pc' = "memlog"
    /\ UNCHANGED <<fs, strategies, user_id, chosen_menu, chosen_strategies, si,
                   files, fi, report_rows, calls, csv_file, temp_error, posts>>
    /\ UNCHANGED <<logVars, scanVars>>

\* main, lines 206-222: an exception leaves main: open(CSV_PATH) raised
\* something that is not handled, or open(temp_name) raised in the handler
save_raises ==
    /\ pc = "strategy"
    /\ si > Len(chosen_strategies)
    /\ \E e \in OpenErrors :
         /\ csv_error' = e
         /\ IF Handled(e)
            THEN \E t \in OpenErrors : temp_error' = t
            ELSE UNCHANGED temp_error
    /\ pc' = "crashed"
    /\ UNCHANGED <<fs, strategies, user_id, chosen_menu, chosen_strategies, si,
                   files, fi, report_rows, calls, csv_file, temp_file, posts, mi>>
    /\ UNCHANGED <<logVars, scanVars>>

\* _memlog: the payload of the POST
MemlogPayload(user, strategy, status) ==
    [k \in {"ts", "user", "strategy", "status"} |->
        CASE k = "ts" -> "now"
          [] k = "user" -> user
          [] k = "strategy" -> strategy
          [] k = "status" -> status]

\* main, lines 212-216 and 225-229, with _memlog: one best-effort POST per
\* chosen strategy; the UI answers, or the request fails and is ignored
memlog_post ==
    /\ pc = "memlog"
    /\ mi <= Len(chosen_strategies)
    /\ posts' = Append(posts, [user |-> user_id,
                               strategy |-> chosen_strategies[mi].name,
                               status |-> "success"])
    /\ \/ /\ api_post_scan_mem_log(
                 MemlogPayload(user_id, chosen_strategies[mi].name, "success"))
          /\ UNCHANGED snapshot
       \/ UNCHANGED logVars
    /\ mi' = mi + 1
    /\ pc' = IF mi = Len(chosen_strategies) THEN "done" ELSE "memlog"
    /\ UNCHANGED <<fs, strategies, user_id, chosen_menu, chosen_strategies, si,
                   files, fi, report_rows, calls, csv_file, csv_error, temp_file,
                   temp_error>>
    /\ UNCHANGED scanVars

(***************************************************************************)
(* ui.py: extraction from uploaded bytes                                   *)
(***************************************************************************)
IMAGE_EXTS ==
    { <<46, 112, 110, 103>>,         \* .png
      <<46, 106, 112, 103>>,         \* .jpg
      <<46, 106, 112, 101, 103>>,    \* .jpeg
      <<46, 116, 105, 102>>,         \* .tif
      <<46, 116, 105, 102, 102>>,    \* .tiff
      <<46, 98, 109, 112>>,          \* .bmp
      <<46, 119, 101, 98, 112>> }    \* .webp

PDF_EXT == <<46, 112, 100, 102>>     \* .pdf

DOCX_EXT == <<46, 100, 111, 99, 120>>   \* .docx

TEXT_EXTS ==
    { <<46, 116, 120, 116>>,         \* .txt
      <<46, 108, 111, 103>>,         \* .log
      <<46, 114, 101, 103>>,         \* .reg
      <<46, 99, 115, 118>>,          \* .csv
      <<46, 105, 110, 105>>,         \* .ini
      <<46, 106, 115, 111, 110>>,    \* .json
      <<46, 120, 109, 108>>,         \* .xml
      <<46, 104, 116, 109>>,         \* .htm
      <<46, 104, 116, 109, 108>> }   \* .html

\* What the third-party parser does with the bytes of an upload: raises is
\* the exception it raises (None: it parses), and the other fields are what
\* it parses out of them.
Lib(raises, text, pages, pix_raises, paragraphs, tables) ==
    [raises |-> raises, text |-> text, pages |-> pages, pix_raises |-> pix_raises,
     paragraphs |-> paragraphs, tables |-> tables]

NoLib == Lib(None, <<>>, <<>>, FALSE, <<>>, <<>>)

Uploads ==
    { \* e.PNG, a readable image
      [filename |-> <<101, 46, 80, 78, 71>>, data |-> <<137, 80>>,
       lib |-> Lib(None, <<65, 122>>, <<>>, FALSE, <<>>, <<>>)],
      \* e.PNG, not an image
      [filename |-> <<101, 46, 80, 78, 71>>, data |-> <<0, 1>>,
       lib |-> Lib("UnidentifiedImageError", <<>>, <<>>, FALSE, <<>>, <<>>)],
      \* e.PNG, a truncated image
      [filename |-> <<101, 46, 80, 78, 71>>, data |-> <<137>>,
       lib |-> Lib("OSError", <<>>, <<>>, FALSE, <<>>, <<>>)],
      \* e.pdf, two pages "p1" and "p2"
      [filename |-> <<101, 46, 112, 100, 102>>, data |-> <<37, 80>>,
       lib |-> Lib(None, <<>>, << <<112, 49>>, <<112, 50>> >>, FALSE, <<>>, <<>>)],
      \* e.pdf, no page
      [filename |-> <<101, 46, 112, 100, 102>>, data |-> <<37>>,
       lib |-> Lib(None, <<>>, <<>>, FALSE, <<>>, <<>>)],
      \* e.pdf, not a PDF
      [filename |-> <<101, 46, 112, 100, 102>>, data |-> <<0, 1>>,
       lib |-> Lib("Exception", <<>>, <<>>, FALSE, <<>>, <<>>)],
      \* e.pdf, one page whose pixmap cannot be rendered
      [filename |-> <<101, 46, 112, 100, 102>>, data |-> <<37, 0>>,
       lib |-> Lib(None, <<>>, << <<112, 49>> >>, TRUE, <<>>, <<>>)],
      \* e.docx, paragraphs "Policy A", "", "Policy B" and a table [["x", "y"]]
      [filename |-> <<101, 46, 100, 111, 99, 120>>, data |-> <<80, 75>>,
       lib |-> Lib(None, <<>>, <<>>, FALSE,
                   << <<80, 111, 108, 105, 99, 121, 32, 65>>, <<>>,
                      <<80, 111, 108, 105, 99, 121, 32, 66>> >>,
                   << << << <<120>>, <<121>> >> >> >>)],
      \* e.docx, not a document
      [filename |-> <<101, 46, 100, 111, 99, 120>>, data |-> <<0, 1>>,
       lib |-> Lib("Exception", <<>>, <<>>, FALSE, <<>>, <<>>)],
      \* e.txt, "pw"
      [filename |-> <<101, 46, 116, 120, 116>>, data |-> <<112, 119>>, lib |-> NoLib],
      \* e.txt, "pw" with two bytes that are not UTF-8
      [filename |-> <<101, 46, 116, 120, 116>>, data |-> <<255, 112, 254, 119>>,
       lib |-> NoLib],
      \* e.txt, no byte is UTF-8
      [filename |-> <<101, 46, 116, 120, 116>>, data |-> <<255, 254>>, lib |-> NoLib],
      \* e.txt, white space
      [filename |-> <<101, 46, 116, 120, 116>>, data |-> <<32, 10>>, lib |-> NoLib],
      \* e.txt, empty
      [filename |-> <<101, 46, 116, 120, 116>>, data |-> <<>>, lib |-> NoLib],
      \* e.exe
      [filename |-> <<101, 46, 101, 120, 101>>, data |-> <<77, 90>>, lib |-> NoLib],
      \* README
      [filename |-> <<82, 69, 65, 68, 77, 69>>, data |-> <<112, 119>>, lib |-> NoLib] }

\* the result of an extraction: whether the extractor ran, the text, the
\* preview path (NoPath: none), the files written under PREVIEWS, and the
\* exception that leaves the call
Extracted(text, preview, written, raised) ==
    [ran |-> TRUE, text |-> text, preview |-> preview, written |-> written,
     raised |-> raised]

\* _ocr_image_bytes: the exceptions of its except clause
OcrCaught == {"UnidentifiedImageError", "OSError"}

\* _ocr_image_bytes: the text and the exception that leaves the call
_ocr_image_bytes(u) ==
    IF u.lib.raises = None THEN [text |-> u.lib.text, raised |-> None]
    ELSE IF u.lib.raises \in OcrCaught THEN [text |-> <<>>, raised |-> None]
    ELSE [text |-> <<>>, raised |-> u.lib.raises]

\* _extract_pdf_bytes: <stem>_page1.png
PagePreview(stem) == stem \o <<95, 112, 97, 103, 101, 49, 46, 112, 110, 103>>

\* _extract_pdf_bytes
_extract_pdf_bytes(u, haveFitz, stem) ==
    IF ~haveFitz THEN Extracted(<<>>, NoPath, {}, None)
    ELSE IF u.lib.raises # None THEN Extracted(<<>>, NoPath, {}, None)
    ELSE IF Len(u.lib.pages) > 0
         THEN IF u.lib.pix_raises THEN Extracted(<<>>, NoPath, {}, None)
              ELSE Extracted(Flatten(u.lib.pages), PagePreview(stem),
                             {PagePreview(stem)}, None)
         ELSE Extracted(Flatten(u.lib.pages), NoPath, {}, None)

\* _extract_docx_bytes: the non-empty paragraphs, then the non-empty cells
\* row by row, one per line
_extract_docx_bytes(u, haveDocx) ==
    IF ~haveDocx THEN <<>>
    ELSE IF u.lib.raises # None THEN <<>>
    ELSE LET cells == Flatten(Flatten(u.lib.tables))
             parts == SelectSeq(u.lib.paragraphs, LAMBDA t : t # <<>>)
                      \o SelectSeq(cells, LAMBDA t : t # <<>>)
         IN  JoinCodes(<<10>>, parts)

\* bytes.decode("utf-8") caught by a handler that returns ""
DecodeStrict(data) == IF \E i \in 1..Len(data) : data[i] >= 128 THEN <<>> ELSE data

\* bytes.decode("utf-8", errors="ignore") on ASCII bytes and bytes that
\* occur in no UTF-8 sequence (0xF8..0xFF): the latter are dropped
Decode(data) == SelectSeq(data, LAMBDA b : b < 128)

\* extract_text_and_preview_bytes
extract_text_and_preview_bytes(u, haveFitz, haveDocx) ==
    LET ext == Lower(Suffix(u.filename))
    IN  IF ext \in IMAGE_EXTS
        THEN LET ocr == _ocr_image_bytes(u)
             IN  IF ocr.raised # None THEN Extracted(<<>>, NoPath, {}, ocr.raised)
                 ELSE Extracted(ocr.text, u.filename, {u.filename}, None)
        ELSE IF ext = PDF_EXT THEN _extract_pdf_bytes(u, haveFitz, Stem(u.filename))
        ELSE IF ext = DOCX_EXT
             THEN Extracted(_extract_docx_bytes(u, haveDocx), NoPath, {}, None)
        ELSE IF ext \in TEXT_EXTS THEN Extracted(Decode(u.data), NoPath, {}, None)
        ELSE Extracted(<<>>, NoPath, {}, None)

(***************************************************************************)
(* ui.py: POST /scan                                                       *)
(***************************************************************************)
StrategyNames == {"Application Control", "Custom Heuristic", "No Such Strategy"}

\* scan, line 175: the first registered strategy of that name, as a
\* sequence of one element (empty: next() returned None)
FindStrategy(strats, name) ==
    LET hit == {i \in 1..Len(strats) : strats[i].name = name}
    IN  IF hit = {} THEN <<>>
        ELSE <<strats[CHOOSE i \in hit : \A j \in hit : i <= j]>>

\* scan, lines 193-202: the finding made of the raw hits of match
AdaptHits(hits) ==
    IF hits # <<>>
    THEN << [test_id |-> "", sub_strategy |-> "", detected_level |-> "",
             pass_fail |-> "", priority |-> "", recommendation |-> "",
             evidence |-> hits] >>
    ELSE <<>>

\* scan, lines 208-223: what generate_pdf is given for one finding
ReportData(user, strategy, u, preview, r) ==
    [UniqueID |-> <<user, strategy.name, Stem(u.filename)>>,
     UserID |-> user,
     Evidence |-> u.filename,
     Preview |-> preview,
     Strategy |-> strategy.name,
     TestID |-> r.test_id,
     SubStrategy |-> r.sub_strategy,
     Level |-> r.detected_level,
     PassFail |-> r.pass_fail,
     Priority |-> r.priority,
     Recommendation |-> r.recommendation,
     EvidenceExtract |-> Join("; ", r.evidence)]

\* the request as the handler left it: the steps taken, in order, and the
\* values they produced
Trace(steps, name, user, u, ex, engine, out) ==
    [steps |-> steps, strategy_name |-> name, user_id |-> user, upload |-> u,
     extracted |-> ex, engine |-> engine, out |-> out]

NoUpload == [filename |-> <<>>, data |-> <<>>, lib |-> NoLib]

\* no extractor was called
NoExtraction ==
    [ran |-> FALSE, text |-> <<>>, preview |-> NoPath, written |-> {}, raised |-> None]

NoTrace == Trace(<<>>, None, None, NoUpload, NoExtraction, None, <<>>)

\* scan, lines 175-182: the 400 the request ends with (None: none). The
\* strategy is looked up first, the upload is read next.
Rejection(strats, name, u) ==
    IF FindStrategy(strats, name) = <<>> THEN "Unknown strategy"
    ELSE IF u.data = <<>> THEN "Empty upload"
    ELSE None

\* scan, line 180: the upload is read once the strategy is found
ReadsUpload(strats, name) == FindStrategy(strats, name) # <<>>

\* the extractor called before the two tests of lines 176 and 181
ScanExtractionFirst(strats, haveFitz, haveDocx, name, u) ==
    extract_text_and_preview_bytes(u, haveFitz, haveDocx)

\* scan, line 185: the extractor runs on a request that was not rejected
ScanExtraction(strats, haveFitz, haveDocx, name, u) ==
    IF Rejection(strats, name, u) # None THEN NoExtraction
    ELSE extract_text_and_preview_bytes(u, haveFitz, haveDocx)

\* the steps of a request, in the order of the handler
Steps(strats, name, ex, engine, findings) ==
    <<"load_strategies">>
    \o (IF ReadsUpload(strats, name) THEN <<"read">> ELSE <<>>)
    \o (IF ex.ran THEN <<"extract">> ELSE <<>>)
    \o (IF engine # None THEN <<engine>> ELSE <<>>)
    \o [i \in 1..Len(findings) |-> "generate_pdf"]

\* scan, lines 175-182: the request is rejected
Reject(name, user, u) ==
    LET ex == ScanExtraction(strategies, fitz, DocxDocument, name, u)
    IN  /\ previews_dir' = previews_dir \cup ex.written
        /\ trace' = Trace(Steps(strategies, name, ex, None, <<>>),
                          name, user, u, ex, None, <<>>)
        /\ resp' = [status |-> 400, detail |-> Rejection(strategies, name, u)]

\* scan, lines 175-177: the strategy name is not registered
scan_unknown_strategy ==
    /\ pc = "ui"
    /\ nreq < MaxRequests
    /\ \E name \in StrategyNames, user \in Users, u \in Uploads :
         /\ Rejection(strategies, name, u) = "Unknown strategy"
         /\ Reject(name, user, u)
    /\ nreq' = nreq + 1
    /\ UNCHANGED <<pc, fitz, DocxDocument, reports_out>>
    /\ UNCHANGED <<scannerVars, logVars>>

\* scan, lines 180-182: the upload is empty
scan_empty_upload ==
    /\ pc = "ui"
    /\ nreq < MaxRequests
    /\ \E name \in StrategyNames, user \in Users, u \in Uploads :
         /\ Rejection(strategies, name, u) = "Empty upload"
         /\ Reject(name, user, u)
    /\ nreq' = nreq + 1
    /\ UNCHANGED <<pc, fitz, DocxDocument, reports_out>>
    /\ UNCHANGED <<scannerVars, logVars>>

\* scan, lines 185-187: no readable text
scan_no_text ==
    /\ pc = "ui"
    /\ nreq < MaxRequests
    /\ \E name \in StrategyNames, user \in Users, u \in Uploads :
         LET ex == ScanExtraction(strategies, fitz, DocxDocument, name, u)
         IN  /\ Rejection(strategies, name, u) = None
             /\ ex.raised = None
             /\ IsBlank(ex.text)
             /\ previews_dir' = previews_dir \cup ex.written
             /\ trace' = Trace(Steps(strategies, name, ex, None, <<>>),
                               name, user, u, ex, None, <<>>)
             /\ resp' = [status |-> 200, findings |-> <<>>, reports |-> <<>>,
                         note |-> "No readable text found in evidence."]
    /\ nreq' = nreq + 1
    /\ UNCHANGED <<pc, fitz, DocxDocument, reports_out>>
    /\ UNCHANGED <<scannerVars, logVars>>

\* scan, lines 204-232: one report per finding, and the response
Respond(name, user, u, ex, engine, out, findings) ==
    LET strategy == FindStrategy(strategies, name)[1]
        generated == [i \in 1..Len(findings) |->
                        ReportData(user, strategy, u, ex.preview, findings[i])]
    IN  /\ previews_dir' = previews_dir \cup ex.written
        /\ reports_out' = reports_out \cup Range(generated)
        /\ trace' = Trace(Steps(strategies, name, ex, engine, findings),
                          name, user, u, ex, engine, out)
        /\ resp' = [status |-> 200, findings |-> findings, reports |-> generated]

\* scan, lines 190-191 and 204-232: the rich contract
scan_emit_hits ==
    /\ pc = "ui"
    /\ nreq < MaxRequests
    /\ \E name \in StrategyNames, user \in Users, u \in Uploads, rows \in EmitOutputs :
         LET ex == ScanExtraction(strategies, fitz, DocxDocument, name, u)
         IN  /\ Rejection(strategies, name, u) = None
             /\ FindStrategy(strategies, name)[1].has_emit_hits
             /\ ex.raised = None
             /\ ~IsBlank(ex.text)
             /\ Respond(name, user, u, ex, "emit_hits", rows, rows)
    /\ nreq' = nreq + 1
    /\ UNCHANGED <<pc, fitz, DocxDocument>>
    /\ UNCHANGED <<scannerVars, logVars>>

\* scan, lines 192-232: the legacy contract
scan_match ==
    /\ pc = "ui"
    /\ nreq < MaxRequests
    /\ \E name \in StrategyNames, user \in Users, u \in Uploads, hits \in MatchOutputs :
         LET ex == ScanExtraction(strategies, fitz, DocxDocument, name, u)
         IN  /\ Rejection(strategies, name, u) = None
             /\ ~FindStrategy(strategies, name)[1].has_emit_hits
             /\ ex.raised = None
             /\ ~IsBlank(ex.text)
             /\ Respond(name, user, u, ex, "match", hits, AdaptHits(hits))
    /\ nreq' = nreq + 1
    /\ UNCHANGED <<pc, fitz, DocxDocument>>
    /\ UNCHANGED <<scannerVars, logVars>>

(***************************************************************************)
(* The scanner run, or the UI serving scans                                *)
(***************************************************************************)
Init ==
    /\ pc \in {"main", "ui"}
    /\ IF pc = "main"
       THEN /\ fs \in Trees
            /\ strategies \in {Registry, <<>>}
            /\ fitz = TRUE
            /\ DocxDocument = TRUE
       ELSE /\ fs = {}
            /\ strategies = Registry
            /\ fitz \in BOOLEAN
            /\ DocxDocument \in BOOLEAN
    /\ user_id = None
    /\ chosen_menu = <<>>
    /\ chosen_strategies = <<>>
    /\ si = 0
    /\ files = <<>>
    /\ fi = 0
    /\ report_rows = <<>>
    /\ calls = <<>>
    /\ csv_file = NotWritten
    /\ csv_error = None
    /\ temp_file = NotWritten
    /\ temp_error = None
    /\ posts = <<>>
    /\ mi = 0
    /\ SCAN_MEM = <<>>
    /\ clock = 0
    /\ snapshot = <<>>
    /\ previews_dir = {}
    /\ reports_out = {}
    /\ resp = [status |-> 0]
    /\ trace = NoTrace
    /\ nreq = 0

Next ==
    \/ main_no_strategies
    \/ main_invalid_selection
    \/ main_selected
    \/ strategy_files
    \/ strategy_skip
    \/ scan_file_no_text
    \/ scan_file_emit_hits
    \/ scan_file_match
    \/ save_csv
    \/ save_temp
    \/ save_raises
    \/ memlog_post
    \/ scan_unknown_strategy
    \/ scan_empty_upload
    \/ scan_no_text
    \/ scan_emit_hits
    \/ scan_match

Spec == Init /\ [][Next]_vars

(***************************************************************************)
(* The UI serving the run log                                              *)
(***************************************************************************)
InitLog ==
    /\ pc = "log"
    /\ fs = {}
    /\ strategies = Registry
    /\ fitz = TRUE
    /\ DocxDocument = TRUE
    /\ user_id = None
    /\ chosen_menu = <<>>
    /\ chosen_strategies = <<>>
    /\ si = 0
    /\ files = <<>>
    /\ fi = 0
    /\ report_rows = <<>>
    /\ calls = <<>>
    /\ csv_file = NotWritten
    /\ csv_error = None
    /\ temp_file = NotWritten
    /\ temp_error = None
    /\ posts = <<>>
    /\ mi = 0
    /\ SCAN_MEM = <<>>
    /\ clock = 0
    /\ snapshot = <<>>
    /\ previews_dir = {}
    /\ reports_out = {}
    /\ resp = [status |-> 0]
    /\ trace = NoTrace
    /\ nreq = 0

\* POST /api/scan-mem-log as scanner.py's _memlog sends it
log_post_memlog ==
    /\ pc = "log"
    /\ clock < SCAN_MEM_MAXLEN + MaxOverflow
    /\ api_post_scan_mem_log(MemlogPayload("alice", "Application Control", "success"))
    /\ UNCHANGED snapshot
    /\ UNCHANGED <<pc, scannerVars, scanVars>>

\* GET /api/scan-mem-log
log_get ==
    /\ pc = "log"
    /\ api_get_scan_mem_log
    /\ UNCHANGED <<pc, scannerVars, scanVars>>

NextLog == log_post_memlog \/ log_get

SpecLog == InitLog /\ [][NextLog]_vars

\* the JSON objects a client may post
Payloads ==
    { u @@ g @@ t :
        u \in { <<>>, "user" :> "bob", ("user" :> "") @@ ("user_id" :> "carol") },
        g \in { <<>>, "strategy" :> "Regular Backups",
                "strategy_name" :> "Patch Applications" },
        t \in { <<>>, "status" :> "success", "status" :> "error",
                "status" :> "cancelled", "status" :> "running", "status" :> "" } }

\* POST /api/scan-mem-log with any payload
log_post_any ==
    /\ pc = "log"
    /\ clock < MaxPosts
    /\ \E payload \in Payloads : api_post_scan_mem_log(payload)
    /\ UNCHANGED snapshot
    /\ UNCHANGED <<pc, scannerVars, scanVars>>

NextLogAny == log_post_any \/ log_get

SpecLogAny == InitLog /\ [][NextLogAny]_vars

(***************************************************************************)
(* Properties                                                              *)
(***************************************************************************)
\* the data rows of the report
DataRows == IF report_rows = <<>> THEN <<>> ELSE Tail(report_rows)

\* the data rows of one scanned (file, strategy) pair
RowsFor(c) ==
    SelectSeq(DataRows, LAMBDA r : r[2] = c.file.name /\ r[3] = c.strat.name)

\* the text is empty or white space only
AllWhitespace(text) ==
    \A k \in 1..Len(text) : text[k] \in {9, 10, 11, 12, 13, 28, 29, 30, 31, 32}

\* C1: a scanned (file, strategy) pair whose extracted text is empty or
\* white space only has exactly one row, with status NO_TEXT and priority
\* Low, and no rule engine was called for it; POST /scan calls no rule engine
\* on such a text either.
C1_BlankTextOneNoTextRow ==
    /\ \A i \in 1..Len(calls) :
         AllWhitespace(calls[i].file.text) =>
            /\ calls[i].engine = None
            /\ Len(RowsFor(calls[i])) = 1
            /\ RowsFor(calls[i])[1][7] = "NO_TEXT"
            /\ RowsFor(calls[i])[1][8] = "Low"
    /\ (trace.extracted.ran /\ AllWhitespace(trace.extracted.text)) =>
            /\ trace.engine = None
            /\ "emit_hits" \notin Range(trace.steps)
            /\ "match" \notin Range(trace.steps)

\* a finished run that scanned a file of white space only and a file with
\* no text at all
C1_Witness ==
    /\ pc = "done"
    /\ \E i \in 1..Len(calls) :
         calls[i].file.text # <<>> /\ AllWhitespace(calls[i].file.text)
    /\ \E i \in 1..Len(calls) : calls[i].file.text = <<>>

\* the number of findings a scanned pair's rule engine produced (raw hits
\* of the legacy contract make one finding)
FindingsOf(c) ==
    IF c.engine = "emit_hits" THEN Len(c.out)
    ELSE IF c.engine = "match" /\ c.out # <<>> THEN 1
    ELSE 0

\* C2: every scanned (file, strategy) pair has at least one row; on a text
\* that is not blank, k >= 1 findings give exactly k rows, none of them a
\* sentinel, and no finding gives exactly one row, NO_MATCH with priority Low.
C2_EveryPairHasRows ==
    \A i \in 1..Len(calls) :
        LET c == calls[i]
            rs == RowsFor(c)
        IN  /\ Len(rs) >= 1
            /\ c.engine # None =>
                 IF FindingsOf(c) >= 1
                 THEN /\ Len(rs) = FindingsOf(c)
                      /\ \A j \in 1..Len(rs) : rs[j][7] \notin {"NO_MATCH", "NO_TEXT"}
                 ELSE /\ Len(rs) = 1
                      /\ rs[1][7] = "NO_MATCH"
                      /\ rs[1][8] = "Low"

\* a finished run in which one engine returned two findings and one none
C2_Witness ==
    /\ pc = "done"
    /\ \E i \in 1..Len(calls) : calls[i].engine = "emit_hits" /\ Len(calls[i].out) = 2
    /\ \E i \in 1..Len(calls) : calls[i].engine # None /\ calls[i].out = <<>>

\* the rows a scanned pair is expected to contribute, in the order the rule
\* engine returned its findings
ExpectedRows(c) ==
    IF c.engine = None THEN <<NoTextRow(user_id, c.file, c.strat)>>
    ELSE IF c.out = <<>> THEN <<NoMatchRow(user_id, c.file, c.strat)>>
    ELSE IF c.engine = "emit_hits"
         THEN [k \in 1..Len(c.out) |-> FindingRow(user_id, c.file, c.strat, c.out[k])]
         ELSE <<HitRow(user_id, c.file, c.strat, c.out)>>

\* the place of a strategy in the registry
RegistryIndex(name) ==
    CHOOSE i \in 1..Len(strategies) : strategies[i].name = name

\* the place of a strategy in what the user typed (its first mention)
TypedIndex(name) ==
    CHOOSE k \in 1..Len(chosen_menu) :
        /\ strategies[chosen_menu[k]].name = name
        /\ \A j \in 1..(k - 1) : strategies[chosen_menu[j]].name # name

\* the pairs were scanned file by file in the order of the lower-cased file
\* names, and the rows are theirs, pair after pair, finding after finding
FilesAndFindingsInOrder ==
    /\ DataRows = Flatten([i \in 1..Len(calls) |-> ExpectedRows(calls[i])])
    /\ \A i, j \in 1..Len(calls) :
         (i < j /\ calls[i].strat.name = calls[j].strat.name) =>
            StrLeq(Lower(calls[i].file.name), Lower(calls[j].file.name))

\* C3 as amended: the data rows come strategy by strategy in the order of
\* the registry (each selected strategy once, whatever order the user typed
\* the numbers in), then file by file in the order of the lower-cased file
\* names, then finding by finding as the rule engine returned them.
C3_RowsInRegistryOrder ==
    /\ FilesAndFindingsInOrder
    /\ \A i, j \in 1..Len(calls) :
         i < j => RegistryIndex(calls[i].strat.name) <= RegistryIndex(calls[j].strat.name)

\* C3 as stated: the strategies come in the order the user chose them
C3_RowsInChosenOrder ==
    /\ FilesAndFindingsInOrder
    /\ \A i, j \in 1..Len(calls) :
         i < j => TypedIndex(calls[i].strat.name) <= TypedIndex(calls[j].strat.name)

\* a finished run for which the user typed "2,1", with rows of both
\* strategies and two files of one listing
C3_Witness ==
    /\ pc = "done"
    /\ chosen_menu = <<2, 1>>
    /\ \E i, j \in 1..Len(calls) : calls[i].strat.name # calls[j].strat.name
    /\ \E i, j \in 1..Len(calls) :
         /\ i < j
         /\ calls[i].strat.name = calls[j].strat.name
         /\ StrLess(calls[j].file.name, calls[i].file.name)
    /\ \E i \in 1..Len(calls) : Len(calls[i].out) = 2

\* C4 as amended: on POST /scan, a non-empty sequence of raw hits of a
\* match-only strategy becomes exactly one finding whose structured fields
\* are blank and whose evidence is the hits; in the batch run it becomes
\* exactly one row whose test id, sub-strategy and level are blank, whose
\* status is HIT, whose priority is Medium and whose evidence is the hits
\* joined by ", ". An empty sequence gives no finding on either path.
C4_LegacyAdapter ==
    /\ trace.engine = "match" =>
         IF trace.out # <<>>
         THEN /\ Len(resp.findings) = 1
              /\ resp.findings[1].test_id = ""
              /\ resp.findings[1].sub_strategy = ""
              /\ resp.findings[1].detected_level = ""
              /\ resp.findings[1].pass_fail = ""
              /\ resp.findings[1].priority = ""
              /\ resp.findings[1].recommendation = ""
              /\ resp.findings[1].evidence = trace.out
         ELSE resp.findings = <<>>
    /\ \A i \in 1..Len(calls) :
         calls[i].engine = "match" =>
            LET rs == RowsFor(calls[i])
            IN  IF calls[i].out # <<>>
                THEN /\ Len(rs) = 1
                     /\ rs[1][4] = "" /\ rs[1][5] = "" /\ rs[1][6] = ""
                     /\ rs[1][7] = "HIT"
                     /\ rs[1][8] = "Medium"
                     /\ rs[1][9] = "Heuristic match."
                     /\ rs[1][10] = Join(", ", calls[i].out)
                ELSE \A j \in 1..Len(rs) : rs[j][7] = "NO_MATCH"

\* C4 as stated: the batch run too leaves pass/fail and the other
\* structured fields of the adapted finding blank
C4_LegacyBlankOnBothPaths ==
    \A i \in 1..Len(calls) :
        (calls[i].engine = "match" /\ calls[i].out # <<>>) =>
            LET rs == RowsFor(calls[i])
            IN  /\ Len(rs) = 1
                /\ rs[1][4] = "" /\ rs[1][5] = "" /\ rs[1][6] = ""
                /\ rs[1][7] = "" /\ rs[1][8] = "" /\ rs[1][9] = ""

\* a finished batch run in which match returned two hits
C4_Witness ==
    /\ pc = "done"
    /\ \E i \in 1..Len(calls) : calls[i].engine = "match" /\ Len(calls[i].out) = 2

\* the entries of a log or of a snapshot are the last min(n, 50) appends,
\* the newest first, n being the number of its newest entry
NewestFirst(mem, n) ==
    /\ Len(mem) = (IF n < 50 THEN n ELSE 50)
    /\ \A i \in 1..Len(mem) : mem[i].ts = n + 1 - i

\* C5: after n appends the log holds exactly min(n, 50) entries, the most
\* recent ones, and a snapshot lists them newest first (the 51st append
\* drops the first entry and no other).
C5_RingBuffer ==
    /\ NewestFirst(SCAN_MEM, clock)
    /\ NewestFirst(snapshot, IF snapshot = <<>> THEN 0 ELSE snapshot[1].ts)

\* 51 appends were made and the snapshot taken after the last one holds
\* the appends 2 to 51
C5_Witness ==
    /\ clock = 51
    /\ Len(snapshot) = 50
    /\ snapshot[1].ts = 51
    /\ snapshot[50].ts = 2

\* the request just served was rejected with a client error
Rejected == nreq' = nreq + 1 /\ resp'.status = 400

\* C6: a scan request whose strategy name is not registered, or whose
\* upload is empty, ends with a client error, and such a request ran no
\* extractor, wrote no preview, called no rule engine and made no report;
\* with an unknown strategy name the upload was not even read.
C6_RejectedBeforeExtraction ==
    [][ /\ (nreq' = nreq + 1 /\
              (trace'.strategy_name \notin {strategies[i].name : i \in 1..Len(strategies)}
               \/ trace'.upload.data = <<>>)) => resp'.status = 400
        /\ Rejected =>
              /\ ~trace'.extracted.ran
              /\ "extract" \notin Range(trace'.steps)
              /\ previews_dir' = previews_dir
              /\ reports_out' = reports_out
              /\ trace'.engine = None
              /\ "generate_pdf" \notin Range(trace'.steps)
        /\ (Rejected /\ resp'.detail = "Unknown strategy") =>
              "read" \notin Range(trace'.steps) ]_vars

\* an image was posted under a strategy name that is not registered
C6_Witness ==
    /\ resp.status = 400
    /\ resp.detail = "Unknown strategy"
    /\ trace.upload.data # <<>>
    /\ Lower(Suffix(trace.upload.filename)) = <<46, 112, 110, 103>>

\* the undecodable bytes of an upload removed
Decodable(data) == SelectSeq(data, LAMBDA b : b <= 127)

\* the extension of the upload of the last request
LastExt == Lower(Suffix(trace.upload.filename))

\* the bytes of the upload of the last request are corrupt: the parser of
\* its format raises on them, or they are not UTF-8
LastCorrupt ==
    IF LastExt \in TEXT_EXTS THEN \E i \in 1..Len(trace.upload.data) :
                                      trace.upload.data[i] > 127
    ELSE trace.upload.lib.raises # None

C8_StatusInDomain ==
    \A i \in 1..Len(SCAN_MEM) : SCAN_MEM[i].status \in {"success", "error", "cancelled"}

C10_OutcomeLogged ==
    /\ (pc = "ui" /\ resp.status = 200 /\ trace.engine # None) =>
          \E i \in 1..Len(SCAN_MEM) :
              /\ SCAN_MEM[i].user = trace.user_id
              /\ SCAN_MEM[i].strategy = trace.strategy_name
    /\ pc \in {"done", "crashed"} =>
          \A k \in 1..Len(chosen_strategies) :
              \E i \in 1..Len(SCAN_MEM) :
                  /\ SCAN_MEM[i].user = user_id
                  /\ SCAN_MEM[i].strategy = chosen_strategies[k].name

=============================================================================
